---- MODULE Spec2Model ----
(***************************************************************************)
(* State-machine model of the dev_connector REST API (routes/api/users.js, *)
(* routes/api/profile.js) and of the client's setAlert action creator.     *)
(*                                                                         *)
(* Every route handler is an async function: each `await` on the document  *)
(* store is a point where other requests run.  Handlers whose claims       *)
(* concern interleavings are therefore split at their awaits into a fetch  *)
(* step (everything up to and including the synchronous checks that follow *)
(* the read) and a save step (the in-memory mutation and the write).       *)
(***************************************************************************)
EXTENDS Integers, Sequences, FiniteSets, TLC

VARIABLES
    users,          \* users collection: set of [id, email]
    nextUserId,     \* next fresh user _id
    reg,            \* registration requests: slot -> request record
    profiles,       \* profiles collection, in insertion order
    nextProfileId,  \* next fresh profile _id
    nextEntryId,    \* next fresh experience/education sub-document _id
    preq,           \* profile requests: slot -> request record
    posts,          \* posts collection: post _id -> document
    nextPostId,     \* next fresh post _id
    nextCommentId,  \* next fresh comment _id
    slots,          \* post requests: slot -> request record
    alertLog,       \* sequence of actions dispatched to the redux store
    timers,         \* pending setTimeout callbacks: set of [id, due, seq]
    now,            \* client clock
    nextAlertId     \* next fresh uuid

vars ==
    <<users, nextUserId, reg, profiles, nextProfileId, nextEntryId, preq,
      posts, nextPostId, nextCommentId, slots, alertLog, timers, now, nextAlertId>>

userVars == <<users, nextUserId, reg>>
profileVars == <<profiles, nextProfileId, nextEntryId, preq>>
postVars == <<posts, nextPostId, nextCommentId, slots>>
alertVars == <<alertLog, timers, now, nextAlertId>>

----------------------------------------------------------------------------
(* Bounds *)

NumUsers == 2
MaxPosts == 1
MaxComments == 2
MaxInFlight == 2

UserIds == 1..NumUsers
PostIds == 1..MaxPosts
CommentIds == 1..MaxComments
Slots == 1..MaxInFlight

----------------------------------------------------------------------------
(* Generic helpers: JavaScript array semantics *)

Min(a, b) == IF a < b THEN a ELSE b
Max(a, b) == IF a > b THEN a ELSE b

Range(s) == {s[i] : i \in 1..Len(s)}

\* Array.prototype.unshift(x)
Unshift(s, x) == <<x>> \o s

\* Array.prototype.indexOf(x): 0-based index of the first match, or -1
IndexOf(s, x) ==
    IF \E i \in 1..Len(s) : s[i] = x
    THEN (CHOOSE i \in 1..Len(s) : s[i] = x /\ \A j \in 1..(i - 1) : s[j] # x) - 1
    ELSE -1

\* Array.prototype.splice(start, 1) with an integer start: a negative start
\* counts from the end, start is clamped to [0, len], and one element is
\* removed if there is one at that position.
Splice(s, start) ==
    LET len == Len(s)
        a == IF start < 0 THEN Max(len + start, 0) ELSE Min(start, len)
    IN  IF a < len THEN SubSeq(s, 1, a) \o SubSeq(s, a + 2, len) ELSE s

\* ToIntegerOrInfinity applied to an array of integers, as splice does to
\* its first argument: the array is converted to a string by joining its
\* elements with ","; "" converts to 0, a single number to itself, and a
\* string with a comma to NaN, which becomes 0.
ArrayToInteger(arr) ==
    IF Len(arr) = 1 THEN arr[1] ELSE 0

----------------------------------------------------------------------------
(* Posts, likes and comments (routes/api/users.js, second module)          *)

Texts == {"", "hello"}

\* req.params.id: a 24-hex-digit string naming post n, or a malformed string
PostParams ==
    {[hex |-> TRUE, n |-> i] : i \in PostIds} \cup {[hex |-> FALSE, n |-> 0]}

\* /^[0-9a-fA-F]{24}$/ matches the parameter
IsObjectId(id) == id.hex

Idle == [pc |-> "idle"]

\* A handler that has sent its response
Done(kind, u, id, c, resp, lost) ==
    [pc |-> "done", kind |-> kind, user |-> u, post |-> id.n, cid |-> c,
     resp |-> resp, lostLikes |-> lost]

\* A handler suspended at `await post.save()` / `await post.remove()`,
\* holding the document it fetched
Fetched(kind, u, id, c, doc) ==
    [pc |-> "fetched", kind |-> kind, user |-> u, post |-> id.n, cid |-> c,
     doc |-> doc]

\* A connection slot on which a new request can start: the lowest one that
\* is not in the middle of a handler
FreeSlot(s) ==
    /\ slots[s].pc # "fetched"
    /\ \A t \in Slots : t < s => slots[t].pc = "fetched"

\* User.findById(req.user.id) finds a record
UserExists(u) == \E r \in users : r.id = u

\* Post.findById(id) returns a document (otherwise null; a malformed id
\* makes it throw a CastError)
PostExists(id) == IsObjectId(id) /\ id.n \in DOMAIN posts

\* Store: insert a new post document
InsertPost(n, doc) ==
    [i \in DOMAIN posts \cup {n} |-> IF i = n THEN doc ELSE posts[i]]

\* Store: post.remove()
RemovePost(n) ==
    [i \in DOMAIN posts \ {n} |-> posts[i]]

\* A store that refuses a save when the stored document is no longer the
\* one that was fetched (optimistic concurrency control)
SaveSucceedsIfUnchanged(n, fetched) ==
    n \in DOMAIN posts /\ posts[n] = fetched

\* Store: post.save() of a fetched and modified document succeeds iff the
\* document is still stored; the store does not compare it with the
\* document that was fetched
SaveSucceeds(n, fetched) == n \in DOMAIN posts

\* Store: post.save() writes the in-memory document over the stored one
SavePost(n, fetched, doc) ==
    IF SaveSucceeds(n, fetched) THEN [posts EXCEPT ![n] = doc] ELSE posts

\* An ownership check that lets every authenticated user through
IsAuthorUnchecked(doc, u) == doc.user \in UserIds

\* post.user.toString() === req.user.id
IsAuthor(doc, u) == doc.user = u

\* A duplicate check that looks at the most recent like only
HasLikedLatest(doc, u) ==
    doc.likes # <<>> /\ doc.likes[1] = u

\* post.likes.filter(like => like.user.toString() === req.user.id).length > 0
HasLiked(doc, u) ==
    Cardinality({i \in 1..Len(doc.likes) : doc.likes[i] = u}) > 0

\* post.likes.unshift({ user: req.user.id })
AddLike(doc, u) == [doc EXCEPT !.likes = Unshift(doc.likes, u)]

\* like.user.toString().indexOf(req.user.id) for two ids of equal length
StringIndexOf(likeUser, u) == IF likeUser = u THEN 0 ELSE -1

\* const removeIndex = post.likes.map(like => like.user.toString().indexOf(id))
\* post.likes.splice(removeIndex, 1): removeIndex is an array
UnlikeRemoveIndex(doc, u) ==
    ArrayToInteger([i \in 1..Len(doc.likes) |-> StringIndexOf(doc.likes[i], u)])

RemoveLike(doc, u) ==
    [doc EXCEPT !.likes = Splice(doc.likes, UnlikeRemoveIndex(doc, u))]

\* post.comments.unshift(newComment); the sub-document gets a fresh _id
AddCommentTo(doc, c, u, text) ==
    [doc EXCEPT !.comments = Unshift(doc.comments, [id |-> c, user |-> u, text |-> text])]

\* post.comments.find(comment => comment.id.toString() === req.params.comment_id)
HasComment(doc, c) == \E i \in 1..Len(doc.comments) : doc.comments[i].id = c

FindComment(doc, c) ==
    doc.comments[CHOOSE i \in 1..Len(doc.comments) :
        /\ doc.comments[i].id = c
        /\ \A j \in 1..(i - 1) : doc.comments[j].id # c]

\* post.comments.map(comment => comment.user.toString()).indexOf(req.user.id)
CommentRemoveIndex(doc, u) ==
    IndexOf([i \in 1..Len(doc.comments) |-> doc.comments[i].user], u)

RemoveComment(doc, u) ==
    [doc EXCEPT !.comments = Splice(doc.comments, CommentRemoveIndex(doc, u))]

\* Likes present in the stored document n and absent from doc
LostLikes(n, doc) ==
    IF n \in DOMAIN posts THEN Range(posts[n].likes) \ Range(doc.likes) ELSE {}

\* POST api/posts
CreatePost(s, u, text) ==
    /\ FreeSlot(s)
    /\ nextPostId <= MaxPosts
    /\ LET id == [hex |-> TRUE, n |-> nextPostId] IN
       IF text = ""
       THEN /\ slots' = [slots EXCEPT ![s] = Done("create", u, id, 0, 400, {})]
            /\ UNCHANGED <<posts, nextPostId>>
       ELSE IF ~UserExists(u)
       THEN /\ slots' = [slots EXCEPT ![s] = Done("create", u, id, 0, 500, {})]
            /\ UNCHANGED <<posts, nextPostId>>
       ELSE /\ posts' = InsertPost(nextPostId,
                   [user |-> u, text |-> text, likes |-> <<>>, comments |-> <<>>])
            /\ nextPostId' = nextPostId + 1
            /\ slots' = [slots EXCEPT ![s] = Done("create", u, id, 0, 200, {})]
    /\ UNCHANGED <<nextCommentId, userVars, profileVars, alertVars>>

\* DELETE api/posts/:id, up to `await post.remove()`
DeletePostFind(s, u, id) ==
    /\ FreeSlot(s)
    /\ slots' = [slots EXCEPT ![s] =
          IF ~IsObjectId(id) THEN Done("delete", u, id, 0, 404, {})
          ELSE IF ~PostExists(id) THEN Done("delete", u, id, 0, 404, {})
          ELSE IF ~IsAuthor(posts[id.n], u) THEN Done("delete", u, id, 0, 401, {})
          ELSE Fetched("delete", u, id, 0, posts[id.n])]
    /\ UNCHANGED <<posts, nextPostId, nextCommentId, userVars, profileVars, alertVars>>

\* DELETE api/posts/:id, `await post.remove()` and the response
DeletePostRemove(s) ==
    /\ slots[s].pc = "fetched"
    /\ slots[s].kind = "delete"
    /\ posts' = RemovePost(slots[s].post)
    /\ slots' = [slots EXCEPT ![s] =
          Done("delete", slots[s].user, [n |-> slots[s].post], 0, 200, {})]
    /\ UNCHANGED <<nextPostId, nextCommentId, userVars, profileVars, alertVars>>

\* PUT api/posts/like/:id, up to `await post.save()`
LikeFetch(s, u, id) ==
    /\ FreeSlot(s)
    /\ slots' = [slots EXCEPT ![s] =
          IF ~PostExists(id) THEN Done("like", u, id, 0, 500, {})
          ELSE IF HasLiked(posts[id.n], u) THEN Done("like", u, id, 0, 400, {})
          ELSE Fetched("like", u, id, 0, posts[id.n])]
    /\ UNCHANGED <<posts, nextPostId, nextCommentId, userVars, profileVars, alertVars>>

\* PUT api/posts/like/:id, unshift, `await post.save()` and the response
LikeSave(s) ==
    /\ slots[s].pc = "fetched"
    /\ slots[s].kind = "like"
    /\ LET r == slots[s]
           doc == AddLike(r.doc, r.user)
       IN  /\ posts' = SavePost(r.post, r.doc, doc)
           /\ slots' = [slots EXCEPT ![s] =
                 Done("like", r.user, [n |-> r.post], 0,
                      IF SaveSucceeds(r.post, r.doc) THEN 200 ELSE 500,
                      LostLikes(r.post, doc))]
    /\ UNCHANGED <<nextPostId, nextCommentId, userVars, profileVars, alertVars>>

\* PUT api/posts/unlike/:id, up to `await post.save()`
UnlikeFetch(s, u, id) ==
    /\ FreeSlot(s)
    /\ slots' = [slots EXCEPT ![s] =
          IF ~PostExists(id) THEN Done("unlike", u, id, 0, 500, {})
          ELSE IF ~HasLiked(posts[id.n], u) THEN Done("unlike", u, id, 0, 400, {})
          ELSE Fetched("unlike", u, id, 0, posts[id.n])]
    /\ UNCHANGED <<posts, nextPostId, nextCommentId, userVars, profileVars, alertVars>>

\* PUT api/posts/unlike/:id, splice, `await post.save()` and the response
UnlikeSave(s) ==
    /\ slots[s].pc = "fetched"
    /\ slots[s].kind = "unlike"
    /\ LET r == slots[s]
           doc == RemoveLike(r.doc, r.user)
       IN  /\ posts' = SavePost(r.post, r.doc, doc)
           /\ slots' = [slots EXCEPT ![s] =
                 Done("unlike", r.user, [n |-> r.post], 0,
                      IF SaveSucceeds(r.post, r.doc) THEN 200 ELSE 500,
                      LostLikes(r.post, doc))]
    /\ UNCHANGED <<nextPostId, nextCommentId, userVars, profileVars, alertVars>>

\* POST api/posts/comment/:id, up to `await post.save()`; the comment's _id
\* is generated when the sub-document is created
CommentFetch(s, u, id, text) ==
    /\ FreeSlot(s)
    /\ nextCommentId <= MaxComments
    /\ IF text = ""
       THEN /\ slots' = [slots EXCEPT ![s] = Done("comment", u, id, 0, 400, {})]
            /\ UNCHANGED nextCommentId
       ELSE IF ~UserExists(u) \/ ~PostExists(id)
       THEN /\ slots' = [slots EXCEPT ![s] = Done("comment", u, id, 0, 500, {})]
            /\ UNCHANGED nextCommentId
       ELSE /\ slots' = [slots EXCEPT ![s] =
                 Fetched("comment", u, id, nextCommentId, posts[id.n])]
            /\ nextCommentId' = nextCommentId + 1
    /\ UNCHANGED <<posts, nextPostId, userVars, profileVars, alertVars>>

\* POST api/posts/comment/:id, unshift, `await post.save()` and the response
CommentSave(s) ==
    /\ slots[s].pc = "fetched"
    /\ slots[s].kind = "comment"
    /\ LET r == slots[s]
           doc == AddCommentTo(r.doc, r.cid, r.user, "hello")
       IN  /\ posts' = SavePost(r.post, r.doc, doc)
           /\ slots' = [slots EXCEPT ![s] =
                 Done("comment", r.user, [n |-> r.post], r.cid,
                      IF SaveSucceeds(r.post, r.doc) THEN 200 ELSE 500,
                      LostLikes(r.post, doc))]
    /\ UNCHANGED <<nextPostId, nextCommentId, userVars, profileVars, alertVars>>

\* DELETE api/posts/comment/:id/:comment_id, up to `await post.save()`
UncommentFetch(s, u, id, c) ==
    /\ FreeSlot(s)
    /\ slots' = [slots EXCEPT ![s] =
          IF ~PostExists(id) THEN Done("uncomment", u, id, c, 500, {})
          ELSE IF ~HasComment(posts[id.n], c) THEN Done("uncomment", u, id, c, 404, {})
          ELSE IF FindComment(posts[id.n], c).user # u
               THEN Done("uncomment", u, id, c, 401, {})
          ELSE Fetched("uncomment", u, id, c, posts[id.n])]
    /\ UNCHANGED <<posts, nextPostId, nextCommentId, userVars, profileVars, alertVars>>

\* DELETE api/posts/comment/:id/:comment_id, splice, save and the response
UncommentSave(s) ==
    /\ slots[s].pc = "fetched"
    /\ slots[s].kind = "uncomment"
    /\ LET r == slots[s]
           doc == RemoveComment(r.doc, r.user)
       IN  /\ posts' = SavePost(r.post, r.doc, doc)
           /\ slots' = [slots EXCEPT ![s] =
                 Done("uncomment", r.user, [n |-> r.post], r.cid,
                      IF SaveSucceeds(r.post, r.doc) THEN 200 ELSE 500,
                      LostLikes(r.post, doc))]
    /\ UNCHANGED <<nextPostId, nextCommentId, userVars, profileVars, alertVars>>

----------------------------------------------------------------------------
(* User registration (routes/api/users.js, first module)                   *)

NumEmails == 2
MinPasswordLength == 6

Emails == 1..NumEmails

Names == {"", "A"}

\* req.body.email: the address it spells, and whether isEmail() accepts it
EmailParams == {[addr |-> e, wellFormed |-> w] : e \in Emails, w \in BOOLEAN}

PasswordLengths == {MinPasswordLength - 1, MinPasswordLength}

\* validationResult(req).isEmpty()
ValidRegistration(name, email, pwLen) ==
    /\ name # ""
    /\ email.wellFormed
    /\ pwLen >= MinPasswordLength

\* A lookup that never finds a record
EmailTakenNever(e) == FALSE

\* let user = await User.findOne({ email }); if (user) ...
EmailTaken(e) == \E r \in users : r.email = e

\* Store: the users collection has a unique index on email; user.save()
\* throws when a record with this email is stored
InsertUserRefused(e) == \E r \in users : r.email = e

\* Store: user.save() of a new record
InsertUser(n, e, name) ==
    IF InsertUserRefused(e) THEN users
    ELSE users \cup {[id |-> n, email |-> e, name |-> name]}

RegDone(email, valid, status, msg) ==
    [pc |-> "done", email |-> email.addr, valid |-> valid,
     status |-> status, msg |-> msg]

FreeRegSlot(s) ==
    /\ reg[s].pc # "found"
    /\ \A t \in Slots : t < s => reg[t].pc = "found"

\* POST api/users, up to the awaits on bcrypt and user.save()
RegisterFind(s, name, email, pwLen) ==
    /\ FreeRegSlot(s)
    /\ nextUserId <= NumUsers
    /\ reg' = [reg EXCEPT ![s] =
          IF ~ValidRegistration(name, email, pwLen)
          THEN RegDone(email, FALSE, 400, "validation errors")
          ELSE IF EmailTaken(email.addr)
          THEN RegDone(email, TRUE, 400, "User already exists")
          ELSE [pc |-> "found", email |-> email.addr, valid |-> TRUE, name |-> name]]
    /\ UNCHANGED <<users, nextUserId, profileVars, postVars, alertVars>>

\* POST api/users, `await user.save()`, jwt.sign and the response
RegisterSave(s) ==
    /\ reg[s].pc = "found"
    /\ users' = InsertUser(nextUserId, reg[s].email, reg[s].name)
    /\ nextUserId' = IF InsertUserRefused(reg[s].email) THEN nextUserId ELSE nextUserId + 1
    /\ reg' = [reg EXCEPT ![s] =
          IF InsertUserRefused(reg[s].email)
          THEN RegDone([addr |-> reg[s].email], TRUE, 500, "Server Error")
          ELSE RegDone([addr |-> reg[s].email], TRUE, 200, "token")]
    /\ UNCHANGED <<profileVars, postVars, alertVars>>

----------------------------------------------------------------------------
(* Profiles (routes/api/profile.js)                                        *)

MaxProfiles == 2
MaxEntries == 2

EntryIds == 1..MaxEntries

\* Strings that the handler takes apart are sequences of characters
RECURSIVE TrimLeft(_)
TrimLeft(str) ==
    IF str # <<>> /\ Head(str) = " " THEN TrimLeft(Tail(str)) ELSE str

RECURSIVE TrimRight(_)
TrimRight(str) ==
    IF str # <<>> /\ str[Len(str)] = " "
    THEN TrimRight(SubSeq(str, 1, Len(str) - 1))
    ELSE str

\* String.prototype.trim()
Trim(str) == TrimRight(TrimLeft(str))

\* String.prototype.split(","): the pieces between the commas
RECURSIVE Split(_, _)
Split(str, piece) ==
    IF str = <<>> THEN <<piece>>
    ELSE IF Head(str) = "," THEN <<piece>> \o Split(Tail(str), <<>>)
    ELSE Split(Tail(str), Append(piece, Head(str)))

\* skills.split(",").map(skill => skill.trim())
ParseSkills(str) ==
    LET pieces == Split(str, <<>>)
    IN  [i \in 1..Len(pieces) |-> Trim(pieces[i])]

\* A request body in which every field is absent
EmptyBody ==
    [company |-> "", website |-> "", location |-> "", bio |-> "", status |-> "",
     githubusername |-> "", skills |-> <<>>,
     youtube |-> "", twitter |-> "", facebook |-> "", linkedin |-> "", instagram |-> ""]

OnlyRequiredBody ==
    [EmptyBody EXCEPT !.status = "Developer", !.skills = <<"j", "s", ",", " ", "g", "o">>]

FullBody ==
    [company |-> "Acme", website |-> "acme.io", location |-> "Pune", bio |-> "hello",
     status |-> "Student", githubusername |-> "octocat", skills |-> <<"c", " ", ",", "c">>,
     youtube |-> "yt", twitter |-> "tw", facebook |-> "fb", linkedin |-> "li",
     instagram |-> "ig"]

NoStatusBody ==
    [EmptyBody EXCEPT !.skills = <<"j", "s">>, !.bio = "hello"]

Bodies == {OnlyRequiredBody, FullBody, NoStatusBody}

\* validationResult(req).isEmpty() for POST api/profile
ValidProfile(body) == body.status # "" /\ body.skills # <<>>

\* profileFields.social = {}; if (youtube) profileFields.social.youtube = ...
SocialOf(body) ==
    [youtube |-> body.youtube, twitter |-> body.twitter, facebook |-> body.facebook,
     linkedin |-> body.linkedin, instagram |-> body.instagram]

\* const profileFields = {}; ... : "" stands for a key that is not set
BuildProfileFields(u, body) ==
    [user |-> u, company |-> body.company, website |-> body.website,
     location |-> body.location, bio |-> body.bio, status |-> body.status,
     githubusername |-> body.githubusername,
     skills |-> IF body.skills # <<>> THEN ParseSkills(body.skills) ELSE <<>>,
     social |-> SocialOf(body)]

Keep(new, old) == IF new # "" THEN new ELSE old

\* Store: { $set: profileFields } replaces the value of every key that
\* profileFields holds, the social object included, and no other
ApplySet(doc, f) ==
    [doc EXCEPT !.company = Keep(f.company, @), !.website = Keep(f.website, @),
                !.location = Keep(f.location, @), !.bio = Keep(f.bio, @),
                !.status = Keep(f.status, @),
                !.githubusername = Keep(f.githubusername, @),
                !.skills = IF f.skills # <<>> THEN f.skills ELSE @,
                !.social = f.social]

\* new Profile(profileFields)
NewProfile(n, f) ==
    [id |-> n, user |-> f.user, company |-> f.company, website |-> f.website,
     location |-> f.location, bio |-> f.bio, status |-> f.status,
     githubusername |-> f.githubusername, skills |-> f.skills, social |-> f.social,
     experience |-> <<>>, education |-> <<>>]

\* Profile.findOne({ user: u }) returns a document
HasProfile(u) == \E i \in 1..Len(profiles) : profiles[i].user = u

\* Position of the document Profile.findOne({ user: u }) returns
ProfileIndex(u) ==
    CHOOSE i \in 1..Len(profiles) :
        /\ profiles[i].user = u
        /\ \A j \in 1..(i - 1) : profiles[j].user # u

\* Store: Profile.findOneAndUpdate({ user: u }, { $set: f })
UpdateProfile(u, f) ==
    IF HasProfile(u)
    THEN [profiles EXCEPT ![ProfileIndex(u)] = ApplySet(@, f)]
    ELSE profiles

\* Store: profile.save() of a new document; the collection has no unique
\* index on user
InsertProfile(doc) == Append(profiles, doc)

\* Store: Profile.findOneAndRemove({ user: u })
RemoveProfile(u) ==
    IF HasProfile(u)
    THEN SubSeq(profiles, 1, ProfileIndex(u) - 1)
            \o SubSeq(profiles, ProfileIndex(u) + 1, Len(profiles))
    ELSE profiles

FreeProfileSlot(s) ==
    /\ preq[s].pc # "found"
    /\ \A t \in Slots : t < s => preq[t].pc = "found"

ProfileDone(kind, u, x, resp) ==
    [pc |-> "done", kind |-> kind, user |-> u, x |-> x, resp |-> resp]

\* POST api/profile, up to the await that follows Profile.findOne
UpsertFind(s, u, body) ==
    /\ FreeProfileSlot(s)
    /\ nextProfileId <= MaxProfiles
    /\ preq' = [preq EXCEPT ![s] =
          IF ~ValidProfile(body) THEN ProfileDone("upsert", u, 0, 400)
          ELSE [pc |-> "found", kind |-> "upsert", user |-> u,
                exists |-> HasProfile(u), fields |-> BuildProfileFields(u, body),
                onlyRequired |-> body = OnlyRequiredBody]]
    /\ UNCHANGED <<profiles, nextProfileId, nextEntryId, userVars, postVars, alertVars>>

\* POST api/profile, findOneAndUpdate or save of a new document, response
UpsertWrite(s) ==
    /\ preq[s].pc = "found"
    /\ IF preq[s].exists
       THEN /\ profiles' = UpdateProfile(preq[s].user, preq[s].fields)
            /\ UNCHANGED nextProfileId
       ELSE /\ profiles' = InsertProfile(NewProfile(nextProfileId, preq[s].fields))
            /\ nextProfileId' = nextProfileId + 1
    /\ preq' = [preq EXCEPT ![s] = ProfileDone("upsert", preq[s].user, 0, 200)]
    /\ UNCHANGED <<nextEntryId, userVars, postVars, alertVars>>

\* DELETE api/profile
DeleteAccount(u) ==
    /\ profiles' = RemoveProfile(u)
    /\ users' = {r \in users : r.id # u}
    /\ UNCHANGED <<nextUserId, reg, nextProfileId, nextEntryId, preq, postVars, alertVars>>

\* profile.experience.map(item => item.id).indexOf(req.params.exp_id)
EntryRemoveIndex(entries, x) ==
    IndexOf([i \in 1..Len(entries) |-> entries[i].id], x)

\* profile.experience.splice(removeIndex, 1)
RemoveEntry(entries, x) == Splice(entries, EntryRemoveIndex(entries, x))

EntryInputs == {[title |-> "", org |-> "Acme"], [title |-> "Engineer", org |-> "Acme"]}

\* validationResult(req).isEmpty() for the experience and education routes
ValidEntry(e) == e.title # "" /\ e.org # ""

\* PUT api/profile/experience
AddExperience(s, u, e) ==
    /\ FreeProfileSlot(s)
    /\ nextEntryId <= MaxEntries
    /\ IF ~ValidEntry(e)
       THEN /\ preq' = [preq EXCEPT ![s] = ProfileDone("addExperience", u, 0, 400)]
            /\ UNCHANGED <<profiles, nextEntryId>>
       ELSE IF ~HasProfile(u)
       THEN /\ preq' = [preq EXCEPT ![s] = ProfileDone("addExperience", u, 0, 500)]
            /\ UNCHANGED <<profiles, nextEntryId>>
       ELSE /\ profiles' = [profiles EXCEPT ![ProfileIndex(u)].experience =
                   Unshift(@, [id |-> nextEntryId, title |-> e.title, org |-> e.org])]
            /\ nextEntryId' = nextEntryId + 1
            /\ preq' = [preq EXCEPT ![s] = ProfileDone("addExperience", u, nextEntryId, 200)]
    /\ UNCHANGED <<nextProfileId, userVars, postVars, alertVars>>

\* DELETE api/profile/experience/:exp_id
RemoveExperience(s, u, x) ==
    /\ FreeProfileSlot(s)
    /\ IF ~HasProfile(u)
       THEN /\ preq' = [preq EXCEPT ![s] = ProfileDone("removeExperience", u, x, 500)]
            /\ UNCHANGED profiles
       ELSE /\ profiles' = [profiles EXCEPT ![ProfileIndex(u)].experience = RemoveEntry(@, x)]
            /\ preq' = [preq EXCEPT ![s] = ProfileDone("removeExperience", u, x, 200)]
    /\ UNCHANGED <<nextProfileId, nextEntryId, userVars, postVars, alertVars>>

\* PUT api/profile/education
AddEducation(s, u, e) ==
    /\ FreeProfileSlot(s)
    /\ nextEntryId <= MaxEntries
    /\ IF ~ValidEntry(e)
       THEN /\ preq' = [preq EXCEPT ![s] = ProfileDone("addEducation", u, 0, 400)]
            /\ UNCHANGED <<profiles, nextEntryId>>
       ELSE IF ~HasProfile(u)
       THEN /\ preq' = [preq EXCEPT ![s] = ProfileDone("addEducation", u, 0, 500)]
            /\ UNCHANGED <<profiles, nextEntryId>>
       ELSE /\ profiles' = [profiles EXCEPT ![ProfileIndex(u)].education =
                   Unshift(@, [id |-> nextEntryId, title |-> e.title, org |-> e.org])]
            /\ nextEntryId' = nextEntryId + 1
            /\ preq' = [preq EXCEPT ![s] = ProfileDone("addEducation", u, nextEntryId, 200)]
    /\ UNCHANGED <<nextProfileId, userVars, postVars, alertVars>>

\* DELETE api/profile/education/:edu_id
RemoveEducation(s, u, x) ==
    /\ FreeProfileSlot(s)
    /\ IF ~HasProfile(u)
       THEN /\ preq' = [preq EXCEPT ![s] = ProfileDone("removeEducation", u, x, 500)]
            /\ UNCHANGED profiles
       ELSE /\ profiles' = [profiles EXCEPT ![ProfileIndex(u)].education = RemoveEntry(@, x)]
            /\ preq' = [preq EXCEPT ![s] = ProfileDone("removeEducation", u, x, 200)]
    /\ UNCHANGED <<nextProfileId, nextEntryId, userVars, postVars, alertVars>>

----------------------------------------------------------------------------
(* Client alerts (actions/alert.js: setAlert)                              *)

MaxAlerts == 3
MaxTimeout == 2

AlertIds == 1..MaxAlerts

\* The timeout argument, in units of the client clock
Timeouts == 1..MaxTimeout

\* A setAlert that keeps a single timer, replacing the one still pending
SetAlertSingleTimer(timeout) ==
    /\ nextAlertId <= MaxAlerts
    /\ alertLog' = Append(alertLog, [type |-> "SET_ALERT", id |-> nextAlertId])
    /\ timers' = {[id |-> nextAlertId, due |-> now + timeout]}
    /\ nextAlertId' = nextAlertId + 1
    /\ UNCHANGED <<now, userVars, profileVars, postVars>>

\* setAlert(msg, alertType, timeout)(dispatch): v4() yields an identifier
\* not used before, SET_ALERT is dispatched and the removal is scheduled
SetAlert(timeout) ==
    /\ nextAlertId <= MaxAlerts
    /\ alertLog' = Append(alertLog, [type |-> "SET_ALERT", id |-> nextAlertId])
    /\ timers' = timers \cup {[id |-> nextAlertId, due |-> now + timeout]}
    /\ nextAlertId' = nextAlertId + 1
    /\ UNCHANGED <<now, userVars, profileVars, postVars>>

\* The clock advances while a timer is waiting for it
Tick ==
    /\ \E t \in timers : t.due > now
    /\ now' = now + 1
    /\ UNCHANGED <<alertLog, timers, nextAlertId, userVars, profileVars, postVars>>

\* The timer scheduled for alert i runs its callback, which dispatches
\* REMOVE_ALERT: it has expired, and no timer that expires earlier, or at
\* the same time and was scheduled earlier, is still pending
TimerFires(i) ==
    \E t \in timers :
        /\ t.id = i
        /\ t.due <= now
        /\ \A o \in timers : o.due > t.due \/ (o.due = t.due /\ o.id >= t.id)
        /\ alertLog' = Append(alertLog, [type |-> "REMOVE_ALERT", id |-> i])
        /\ timers' = timers \ {t}
        /\ UNCHANGED <<now, nextAlertId, userVars, profileVars, postVars>>

----------------------------------------------------------------------------
(* Initial states and specifications                                       *)

\* Every collection empty, no request received, no alert raised
InitUsers ==
    /\ users = {}
    /\ nextUserId = 1
    /\ reg = [s \in Slots |-> Idle]

InitProfiles ==
    /\ profiles = <<>>
    /\ nextProfileId = 1
    /\ nextEntryId = 1
    /\ preq = [s \in Slots |-> Idle]

InitPostsEmpty ==
    /\ posts = <<>>
    /\ nextPostId = 1
    /\ nextCommentId = 1
    /\ slots = [s \in Slots |-> Idle]

InitAlerts ==
    /\ alertLog = <<>>
    /\ timers = {}
    /\ now = 0
    /\ nextAlertId = 1

\* The users 1..NumUsers have registered, each with an email of their own
Registered ==
    /\ users = {[id |-> u, email |-> u, name |-> "A"] : u \in UserIds}
    /\ nextUserId = NumUsers + 1
    /\ reg = [s \in Slots |-> Idle]

InitPosts == Registered /\ InitProfiles /\ InitPostsEmpty /\ InitAlerts

NextPosts ==
    \/ \E s \in Slots, u \in UserIds, text \in Texts : CreatePost(s, u, text)
    \/ \E s \in Slots, u \in UserIds, id \in PostParams : DeletePostFind(s, u, id)
    \/ \E s \in Slots : DeletePostRemove(s)
    \/ \E s \in Slots, u \in UserIds, id \in PostParams : LikeFetch(s, u, id)
    \/ \E s \in Slots : LikeSave(s)
    \/ \E s \in Slots, u \in UserIds, id \in PostParams : UnlikeFetch(s, u, id)
    \/ \E s \in Slots : UnlikeSave(s)
    \/ \E s \in Slots, u \in UserIds, id \in PostParams, text \in Texts :
          CommentFetch(s, u, id, text)
    \/ \E s \in Slots : CommentSave(s)
    \/ \E s \in Slots, u \in UserIds, id \in PostParams, c \in CommentIds :
          UncommentFetch(s, u, id, c)
    \/ \E s \in Slots : UncommentSave(s)

SpecPosts == InitPosts /\ [][NextPosts]_vars

\* Registration and account deletion, starting from an empty database
InitRegistration == InitUsers /\ InitProfiles /\ InitPostsEmpty /\ InitAlerts

NextRegistration ==
    \/ \E s \in Slots, name \in Names, email \in EmailParams, pwLen \in PasswordLengths :
          RegisterFind(s, name, email, pwLen)
    \/ \E s \in Slots : RegisterSave(s)
    \/ \E u \in UserIds : DeleteAccount(u)

SpecRegistration == InitRegistration /\ [][NextRegistration]_vars

\* Creating, updating and deleting profiles, for registered users
NextUpsert ==
    \/ \E s \in Slots, u \in UserIds, body \in Bodies : UpsertFind(s, u, body)
    \/ \E s \in Slots : UpsertWrite(s)
    \/ \E u \in UserIds : DeleteAccount(u)
    \/ \E s \in Slots, u \in UserIds, e \in EntryInputs : AddExperience(s, u, e)
    \/ \E s \in Slots, u \in UserIds, e \in EntryInputs : AddEducation(s, u, e)

SpecUpsert == InitPosts /\ [][NextUpsert]_vars

\* Every registered user has created a profile from OnlyRequiredBody
InitEntries ==
    /\ Registered
    /\ profiles = [u \in UserIds |-> NewProfile(u, BuildProfileFields(u, OnlyRequiredBody))]
    /\ nextProfileId = NumUsers + 1
    /\ nextEntryId = 1
    /\ preq = [s \in Slots |-> Idle]
    /\ InitPostsEmpty
    /\ InitAlerts

\* Experience and education of existing profiles
NextEntries ==
    \/ \E s \in Slots, u \in UserIds, e \in EntryInputs : AddExperience(s, u, e)
    \/ \E s \in Slots, u \in UserIds, x \in EntryIds : RemoveExperience(s, u, x)
    \/ \E s \in Slots, u \in UserIds, e \in EntryInputs : AddEducation(s, u, e)
    \/ \E s \in Slots, u \in UserIds, x \in EntryIds : RemoveEducation(s, u, x)
    \/ \E u \in UserIds : DeleteAccount(u)

SpecEntries == InitEntries /\ [][NextEntries]_vars

\* Client alerts; the event loop runs every expired timer and the clock
\* does not stop
NextAlerts ==
    \/ \E timeout \in Timeouts : SetAlert(timeout)
    \/ Tick
    \/ \E i \in AlertIds : TimerFires(i)

SpecAlerts ==
    /\ InitRegistration
    /\ [][NextAlerts]_vars
    /\ WF_vars(Tick)
    /\ \A i \in AlertIds : WF_vars(TimerFires(i))

\* Posts and likes alone
NextLikes ==
    \/ \E s \in Slots, u \in UserIds, text \in Texts : CreatePost(s, u, text)
    \/ \E s \in Slots, u \in UserIds, id \in PostParams : DeletePostFind(s, u, id)
    \/ \E s \in Slots : DeletePostRemove(s)
    \/ \E s \in Slots, u \in UserIds, id \in PostParams : LikeFetch(s, u, id)
    \/ \E s \in Slots : LikeSave(s)
    \/ \E s \in Slots, u \in UserIds, id \in PostParams : UnlikeFetch(s, u, id)
    \/ \E s \in Slots : UnlikeSave(s)

SpecLikes == InitPosts /\ [][NextLikes]_vars

\* Posts and comments alone
NextComments ==
    \/ \E s \in Slots, u \in UserIds, text \in Texts : CreatePost(s, u, text)
    \/ \E s \in Slots, u \in UserIds, id \in PostParams : DeletePostFind(s, u, id)
    \/ \E s \in Slots : DeletePostRemove(s)
    \/ \E s \in Slots, u \in UserIds, id \in PostParams, text \in Texts :
          CommentFetch(s, u, id, text)
    \/ \E s \in Slots : CommentSave(s)
    \/ \E s \in Slots, u \in UserIds, id \in PostParams, c \in CommentIds :
          UncommentFetch(s, u, id, c)
    \/ \E s \in Slots : UncommentSave(s)

SpecComments == InitPosts /\ [][NextComments]_vars

----------------------------------------------------------------------------
(* Properties of posts, likes and comments                                 *)

\* Slot s receives a request of the given kind in this step
Arrives(s, kind) ==
    /\ slots[s].pc # "fetched"
    /\ slots'[s] # slots[s]
    /\ slots'[s].kind = kind

\* The handler of the given kind suspended in slot s performs its write and
\* responds in this step
Completes(s, kind) ==
    /\ slots[s].pc = "fetched"
    /\ slots[s].kind = kind
    /\ slots'[s].pc = "done"

\* The handler in slot s responds with the given status, writing nothing
Rejected(s, resp) ==
    /\ slots'[s].pc = "done"
    /\ slots'[s].resp = resp
    /\ posts' = posts

NoDuplicateLikes ==
    \A n \in DOMAIN posts : \A i, j \in 1..Len(posts[n].likes) :
        posts[n].likes[i] = posts[n].likes[j] => i = j

RepeatedLikeRejected ==
    \A s \in Slots :
        (/\ Arrives(s, "like")
         /\ slots'[s].post \in DOMAIN posts
         /\ slots'[s].user \in Range(posts[slots'[s].post].likes))
        => Rejected(s, 400)

\* C2: in every reachable state a post's likes list holds at most one entry
\* per user, and a like request by a user who already has an entry in the
\* list is answered 400 and leaves the stored posts unchanged.
C2_OneLikePerUser == []NoDuplicateLikes /\ [][RepeatedLikeRejected]_vars

\* A repeated like was rejected while the post carries two likes
C2_Witness ==
    \E s \in Slots :
        /\ slots[s].pc = "done"
        /\ slots[s].kind = "like"
        /\ slots[s].resp = 400
        /\ slots[s].post \in DOMAIN posts
        /\ slots[s].user \in Range(posts[slots[s].post].likes)
        /\ Len(posts[slots[s].post].likes) = 2

NonAuthorDeleteRejected ==
    \A s \in Slots :
        (/\ Arrives(s, "delete")
         /\ slots'[s].post \in DOMAIN posts
         /\ posts[slots'[s].post].user # slots'[s].user)
        => Rejected(s, 401)

OnlyAuthorRemoves ==
    \A n \in DOMAIN posts :
        n \notin DOMAIN posts' =>
            \E s \in Slots :
                /\ Completes(s, "delete")
                /\ slots[s].post = n
                /\ slots[s].user = posts[n].user

\* C3: a delete request for an existing post by a user who is not its author
\* is answered 401 and leaves every stored post (text, likes, comments) and
\* the set of stored posts unchanged; a post leaves the collection only in
\* the removal step of a delete request made by its author.
C3_DeleteByNonAuthor == [][NonAuthorDeleteRejected /\ OnlyAuthorRemoves]_vars

\* A non-author's delete was answered 401 and the post, with a like and a
\* comment on it, is still stored
C3_Witness ==
    \E s \in Slots :
        /\ slots[s].pc = "done"
        /\ slots[s].kind = "delete"
        /\ slots[s].resp = 401
        /\ slots[s].post \in DOMAIN posts
        /\ posts[slots[s].post].user # slots[s].user
        /\ posts[slots[s].post].likes # <<>>
        /\ posts[slots[s].post].comments # <<>>

\* The sequence s without the elements equal to x
RECURSIVE Without(_, _)
Without(s, x) ==
    IF s = <<>> THEN <<>>
    ELSE IF Head(s) = x THEN Without(Tail(s), x)
    ELSE <<Head(s)>> \o Without(Tail(s), x)

UnlikeWithoutLikeRejected ==
    \A s \in Slots :
        (/\ Arrives(s, "unlike")
         /\ slots'[s].post \in DOMAIN posts
         /\ slots'[s].user \notin Range(posts[slots'[s].post].likes))
        => Rejected(s, 400)

\* The unlike in slot s writes while the stored post is still the one it
\* fetched
UnlikeRemovesOwnLike ==
    \A s \in Slots :
        (/\ Completes(s, "unlike")
         /\ slots[s].post \in DOMAIN posts
         /\ posts[slots[s].post] = slots[s].doc)
        => /\ slots'[s].resp = 200
           /\ posts'[slots[s].post].likes = Without(slots[s].doc.likes, slots[s].user)

\* C6: an unlike request by user u on a post is answered 400 and leaves the
\* likes unchanged when u has no like on the post; otherwise it removes
\* exactly u's entry and keeps every other user's entry in the same order.
C6_UnlikeRemovesOwnLike ==
    [][UnlikeWithoutLikeRejected /\ UnlikeRemovesOwnLike]_vars

\* The comments without the one whose identifier is c
RECURSIVE WithoutComment(_, _)
WithoutComment(cs, c) ==
    IF cs = <<>> THEN <<>>
    ELSE IF Head(cs).id = c THEN WithoutComment(Tail(cs), c)
    ELSE <<Head(cs)>> \o WithoutComment(Tail(cs), c)

UncommentChecks ==
    \A s \in Slots :
        (/\ Arrives(s, "uncomment")
         /\ slots'[s].post \in DOMAIN posts)
        => LET doc == posts[slots'[s].post]
               c == slots'[s].cid
           IN  /\ ~HasComment(doc, c) => Rejected(s, 404)
               /\ (HasComment(doc, c) /\ FindComment(doc, c).user # slots'[s].user)
                     => Rejected(s, 401)

UncommentRemovesNamedComment ==
    \A s \in Slots :
        (/\ Completes(s, "uncomment")
         /\ slots[s].post \in DOMAIN posts
         /\ posts[slots[s].post] = slots[s].doc)
        => /\ slots'[s].resp = 200
           /\ posts'[slots[s].post].comments =
                 WithoutComment(slots[s].doc.comments, slots[s].cid)

\* C7: a comment-delete request naming comment_id is answered 404 if the
\* post has no such comment and 401 if its author is not the requester,
\* leaving the comments unchanged; otherwise it removes the comment with
\* that identifier and keeps every other comment in place and in order.
C7_UncommentRemovesNamedComment ==
    [][UncommentChecks /\ UncommentRemovesNamedComment]_vars

\* The like in slot s writes a list fetched before user w's like was stored
StaleLikeSave(s, w) ==
    /\ Completes(s, "like")
    /\ slots[s].post \in DOMAIN posts
    /\ w # slots[s].user
    /\ w \in Range(posts[slots[s].post].likes)
    /\ w \notin Range(slots[s].doc.likes)

\* C9: a like request that fetched the post before another user's like was
\* saved, and saves after it, is answered 200 and stores a likes list that
\* no longer holds the other user's like, although that request succeeded.
C9_LostLike ==
    [][\A s \in Slots, w \in UserIds :
          StaleLikeSave(s, w)
          => /\ slots'[s].resp = 200
             /\ w \notin Range(posts'[slots[s].post].likes)]_vars

\* Two like requests by different users on the same post were both answered
\* 200, the second save dropped the first user's like, and the stored list
\* holds a single like
C9_Witness ==
    \E s, t \in Slots :
        /\ s # t
        /\ slots[s].pc = "done" /\ slots[t].pc = "done"
        /\ slots[s].kind = "like" /\ slots[t].kind = "like"
        /\ slots[s].resp = 200 /\ slots[t].resp = 200
        /\ slots[s].post = slots[t].post
        /\ slots[s].user # slots[t].user
        /\ slots[s].user \in slots[t].lostLikes
        /\ slots[s].post \in DOMAIN posts
        /\ posts[slots[s].post].likes = <<slots[t].user>>

----------------------------------------------------------------------------
(* Properties of registration                                              *)

UniqueEmails ==
    \A a, b \in users : a.email = b.email => a = b

DuplicateRegistrationRejected ==
    \A s \in Slots :
        (/\ reg[s].pc # "found"
         /\ reg'[s] # reg[s]
         /\ reg'[s].valid
         /\ \E r \in users : r.email = reg'[s].email)
        => /\ reg'[s].pc = "done"
           /\ reg'[s].status = 400
           /\ reg'[s].msg = "User already exists"
           /\ users' = users

\* C1: a registration that passes validation and arrives when a user record
\* with its email exists is answered 400 "User already exists" and creates
\* no record; the users collection never holds two records with one email.
C1_DuplicateEmailRejected ==
    []UniqueEmails /\ [][DuplicateRegistrationRejected]_vars

\* A second registration with a stored email was answered 400
C1_Witness ==
    \E s \in Slots :
        /\ reg[s].pc = "done"
        /\ reg[s].status = 400
        /\ reg[s].msg = "User already exists"
        /\ Cardinality({r \in users : r.email = reg[s].email}) = 1

----------------------------------------------------------------------------
(* Properties of profiles                                                  *)

\* The update in slot s, whose body held only status and skills, is written
\* to an existing profile
OnlyRequiredUpdate(s) ==
    /\ preq[s].pc = "found"
    /\ preq'[s].pc = "done"
    /\ preq[s].exists
    /\ preq[s].onlyRequired
    /\ HasProfile(preq[s].user)

\* C4: an update whose body carries only status and skills leaves company,
\* website, location, bio, github username, every social link, experience
\* and education of the stored profile as they were, and applying the same
\* body again changes nothing.
C4_UpdateKeepsOtherFields ==
    [][\A s \in Slots :
          OnlyRequiredUpdate(s)
          => LET i == ProfileIndex(preq[s].user)
                 old == profiles[i]
                 new == profiles'[i]
             IN  /\ new.company = old.company
                 /\ new.website = old.website
                 /\ new.location = old.location
                 /\ new.bio = old.bio
                 /\ new.githubusername = old.githubusername
                 /\ new.social = old.social
                 /\ new.experience = old.experience
                 /\ new.education = old.education
                 /\ ApplySet(new, preq[s].fields) = new]_vars

RECURSIVE WithoutEntry(_, _)
WithoutEntry(entries, x) ==
    IF entries = <<>> THEN <<>>
    ELSE IF Head(entries).id = x THEN WithoutEntry(Tail(entries), x)
    ELSE <<Head(entries)>> \o WithoutEntry(Tail(entries), x)

\* Slot s serves a request of the given kind by a user who has a profile
EntryRequest(s, kind) ==
    /\ preq[s].pc # "found"
    /\ preq'[s] # preq[s]
    /\ preq'[s].kind = kind
    /\ HasProfile(preq'[s].user)

\* C8: a remove-experience (remove-education) request with identifier x
\* leaves the list equal to the previous list without the entry whose
\* identifier is x, the others in order; with no such entry it is unchanged.
C8_RemoveEntryById ==
    [][\A s \in Slots :
          /\ EntryRequest(s, "removeExperience")
             => LET i == ProfileIndex(preq'[s].user)
                IN  profiles'[i].experience = WithoutEntry(profiles[i].experience, preq'[s].x)
          /\ EntryRequest(s, "removeEducation")
             => LET i == ProfileIndex(preq'[s].user)
                IN  profiles'[i].education = WithoutEntry(profiles[i].education, preq'[s].x)]_vars

----------------------------------------------------------------------------
(* Properties of alerts                                                    *)

\* Positions of the log at which the action (type, i) was dispatched
Dispatches(type, i) ==
    {k \in 1..Len(alertLog) : alertLog[k] = [type |-> type, id |-> i]}

AlertOrder ==
    \A i \in AlertIds :
        /\ Cardinality(Dispatches("SET_ALERT", i)) <= 1
        /\ Cardinality(Dispatches("REMOVE_ALERT", i)) <= 1
        /\ \A k \in Dispatches("REMOVE_ALERT", i) :
              \E j \in Dispatches("SET_ALERT", i) : j < k
        /\ (Dispatches("SET_ALERT", i) # {} /\ Dispatches("REMOVE_ALERT", i) = {})
              => \E t \in timers : t.id = i

NeverCancelled ==
    \A t \in timers :
        t \notin timers' => alertLog' = Append(alertLog, [type |-> "REMOVE_ALERT", id |-> t.id])

\* C10: every setAlert dispatches SET_ALERT with a fresh identifier and is
\* eventually followed by exactly one REMOVE_ALERT with that identifier,
\* never before its SET_ALERT; a pending removal is never cancelled, so with
\* several alerts pending each one's REMOVE_ALERT is dispatched.
C10_AlertRemoved ==
    /\ []AlertOrder
    /\ [][NeverCancelled]_vars
    /\ \A i \in AlertIds :
          (Dispatches("SET_ALERT", i) # {}) ~> (Dispatches("REMOVE_ALERT", i) # {})

\* Two alerts were pending together and both have been removed
C10_Witness ==
    \E i, j \in AlertIds :
        /\ i # j
        /\ \E a \in Dispatches("SET_ALERT", i), b \in Dispatches("SET_ALERT", j),
              c \in Dispatches("REMOVE_ALERT", i), d \in Dispatches("REMOVE_ALERT", j) :
              a < b /\ b < c /\ b < d

====
